---- MODULE Spec2Model ----
(***************************************************************************)
(* Model of the Ed25519 signature service of                               *)
(* 06_C2PA_Dependencies/ED25519_uniffi_custom/src/lib.rs.                  *)
(*                                                                         *)
(* The service is stateless.  The state of the model is what a host holds  *)
(* and observes: the KeyPair objects created so far (pairs), for each of   *)
(* them the operation that created it and the value it was created with    *)
(* (origin), the last call with its arguments and its result (last), the   *)
(* operations that have read the OS random source, in order (entropy), and *)
(* the first sign_message call of the run with the number of reads of the  *)
(* random source that preceded it (firstSign).                             *)
(*                                                                         *)
(* Byte strings are sequences over 0..255 and keep their real lengths (32  *)
(* byte keys, 64 byte signatures).  Strings are sequences of fragments: a  *)
(* literal of a format string is one fragment, a formatted number is one   *)
(* fragment per decimal digit, a hex string is one fragment per hex digit. *)
(*                                                                         *)
(* The ed25519_dalek primitives are outside the repository.  Their         *)
(* results (public keys, signatures, which byte strings decode to a point) *)
(* are the values of RFC 8032, tabulated for the byte strings the model    *)
(* uses.                                                                   *)
(***************************************************************************)
EXTENDS Integers, Sequences, FiniteSets, TLC

VARIABLES pairs, origin, last, entropy, firstSign

vars == <<pairs, origin, last, entropy, firstSign>>

\* The value of last and of firstSign while no call has been made.
None == [op |-> "none"]

(***************************************************************************)
(* Lengths fixed by the code.                                              *)
(***************************************************************************)
KeyLen == 32
SigLen == 64

(***************************************************************************)
(* Bounds of the model: the number of KeyPair objects the host creates,    *)
(* and that number in the runs that compare signing calls (SpecDet).       *)
(***************************************************************************)
MaxPairs == 2
MaxPairsDet == 1

Byte == 0..255

Zeros(n) == [i \in 1..n |-> 0]

\* The byte strings the tables below are indexed by.
Ramp(b, n) == [i \in 1..n |-> (b + 37 * i) % 256]

(***************************************************************************)
(* The primitives of ed25519_dalek.  The crate is outside the repository   *)
(* and its arithmetic (SHA-512, the field of 2^255 - 19) is out of reach   *)
(* of the model checker, so its results are tabulated.  KeyTable holds     *)
(* what SigningKey::from_bytes(seed).verifying_key().to_bytes() returns    *)
(* and SignatureTable what Signer::sign(message).to_bytes() returns (RFC   *)
(* 8032), for the seeds Zeros(32) and Ramp(b, 32), b in 0..15, and the     *)
(* messages <<>> and "abc".  OnCurveY holds the y in 0..255 for which the  *)
(* 32 bytes <<y, 0, ..., 0>> decode to a point of the curve.               *)
(* OtherAccepted holds the triples Verifier::verify accepts although sign  *)
(* did not make the signature: under a public key of small order, and for  *)
(* a signature made with the seed and another nonce.  The primitives are   *)
(* undefined outside the tables.                                           *)
(***************************************************************************)
KeyTable ==
    {[seed |-> Zeros(KeyLen),
      public |->
        <<59, 106, 39, 188, 206, 182, 164, 45, 98, 163, 168, 208, 42, 111, 13,
          115, 101, 50, 21, 119, 29, 226, 67, 166, 58, 192, 72, 161, 139, 89,
          218, 41>>],
     [seed |-> Ramp(0, KeyLen),
      public |->
        <<40, 227, 199, 245, 12, 208, 219, 12, 87, 185, 134, 164, 102, 17, 98,
          133, 72, 121, 58, 130, 244, 146, 201, 146, 232, 208, 241, 178, 188,
          241, 103, 130>>],
     [seed |-> Ramp(1, KeyLen),
      public |->
        <<86, 184, 198, 220, 143, 81, 82, 110, 73, 87, 203, 118, 94, 124, 130,
          170, 23, 124, 209, 230, 58, 195, 157, 115, 24, 163, 132, 148, 241,
          84, 111, 132>>],
     [seed |-> Ramp(2, KeyLen),
      public |->
        <<251, 233, 35, 214, 180, 21, 220, 146, 62, 114, 244, 0, 68, 80, 153,
          167, 110, 102, 1, 101, 240, 10, 115, 63, 233, 74, 134, 96, 191, 150,
          10, 226>>],
     [seed |-> Ramp(3, KeyLen),
      public |->
        <<136, 72, 106, 42, 44, 255, 8, 62, 17, 99, 248, 117, 162, 155, 82,
          30, 188, 222, 19, 75, 151, 163, 145, 210, 165, 115, 110, 92, 210,
          217, 159, 224>>],
     [seed |-> Ramp(4, KeyLen),
      public |->
        <<252, 62, 225, 99, 250, 132, 3, 241, 201, 117, 224, 218, 25, 249, 68,
          158, 215, 254, 245, 162, 69, 215, 91, 88, 223, 34, 104, 134, 208,
          106, 13, 140>>],
     [seed |-> Ramp(5, KeyLen),
      public |->
        <<38, 165, 22, 114, 250, 151, 210, 162, 49, 54, 6, 54, 35, 89, 121,
          244, 159, 155, 94, 137, 50, 80, 71, 70, 85, 92, 170, 144, 56, 83,
          158, 241>>],
     [seed |-> Ramp(6, KeyLen),
      public |->
        <<246, 84, 195, 72, 85, 246, 86, 110, 97, 222, 163, 63, 93, 145, 236,
          9, 137, 177, 186, 207, 229, 121, 18, 44, 160, 145, 160, 36, 109,
          200, 68, 184>>],
     [seed |-> Ramp(7, KeyLen),
      public |->
        <<44, 126, 70, 254, 14, 246, 184, 205, 133, 191, 66, 114, 221, 100,
          139, 48, 47, 63, 161, 109, 219, 252, 184, 221, 43, 39, 55, 111, 89,
          13, 16, 249>>],
     [seed |-> Ramp(8, KeyLen),
      public |->
        <<211, 104, 115, 67, 134, 127, 246, 90, 162, 68, 141, 85, 67, 29, 38,
          27, 246, 100, 112, 15, 221, 69, 60, 2, 204, 33, 179, 189, 180, 54,
          63, 228>>],
     [seed |-> Ramp(9, KeyLen),
      public |->
        <<163, 28, 143, 105, 250, 170, 236, 244, 157, 146, 162, 178, 132, 228,
          121, 233, 167, 249, 55, 21, 55, 43, 226, 3, 139, 93, 32, 151, 4, 27,
          89, 189>>],
     [seed |-> Ramp(10, KeyLen),
      public |->
        <<112, 86, 71, 173, 73, 200, 254, 117, 93, 230, 109, 134, 96, 28, 140,
          158, 245, 84, 3, 0, 207, 177, 209, 139, 11, 13, 88, 57, 18, 68, 21,
          76>>],
     [seed |-> Ramp(11, KeyLen),
      public |->
        <<116, 73, 63, 135, 140, 112, 32, 101, 90, 91, 83, 121, 92, 30, 13,
          242, 74, 24, 76, 218, 140, 152, 146, 172, 103, 146, 80, 12, 231,
          245, 116, 160>>],
     [seed |-> Ramp(12, KeyLen),
      public |->
        <<17, 76, 128, 49, 186, 170, 35, 38, 32, 25, 246, 21, 247, 18, 229,
          11, 67, 85, 79, 197, 129, 97, 246, 20, 115, 105, 115, 213, 31, 180,
          36, 168>>],
     [seed |-> Ramp(13, KeyLen),
      public |->
        <<88, 39, 221, 129, 254, 88, 214, 250, 180, 34, 33, 119, 116, 172,
          189, 123, 129, 127, 81, 118, 235, 216, 27, 15, 28, 231, 228, 65,
          120, 211, 132, 139>>],
     [seed |-> Ramp(14, KeyLen),
      public |->
        <<242, 195, 199, 27, 198, 81, 56, 60, 84, 177, 79, 169, 244, 171, 159,
          45, 40, 6, 128, 170, 195, 105, 157, 75, 207, 37, 213, 199, 59, 13,
          141, 203>>],
     [seed |-> Ramp(15, KeyLen),
      public |->
        <<31, 26, 149, 88, 152, 9, 97, 26, 80, 32, 46, 93, 220, 105, 100, 202,
          127, 160, 132, 118, 163, 134, 9, 171, 186, 203, 220, 249, 6, 160,
          31, 243>>]}

SignatureTable ==
    {[seed |-> Zeros(KeyLen), message |-> <<>>,
      signature |->
        <<143, 137, 91, 60, 175, 226, 201, 80, 96, 57, 208, 226, 166, 99, 130,
          86, 128, 4, 103, 79, 232, 210, 55, 120, 80, 146, 228, 13, 106, 175,
          72, 62, 79, 198, 1, 104, 112, 95, 49, 241, 1, 89, 97, 56, 206, 33,
          170, 53, 124, 13, 50, 160, 100, 244, 35, 220, 62, 228, 170, 58, 191,
          83, 248, 3>>],
     [seed |-> Zeros(KeyLen), message |-> <<97, 98, 99>>,
      signature |->
        <<136, 93, 251, 7, 202, 178, 121, 110, 185, 96, 83, 26, 47, 9, 185,
          114, 173, 89, 185, 123, 177, 37, 190, 245, 253, 218, 8, 85, 214,
          190, 190, 191, 36, 68, 126, 112, 95, 161, 21, 117, 99, 157, 243,
          150, 194, 1, 204, 245, 42, 26, 22, 176, 20, 167, 162, 240, 206, 115,
          167, 161, 97, 117, 115, 8>>],
     [seed |-> Ramp(0, KeyLen), message |-> <<>>,
      signature |->
        <<234, 42, 7, 171, 237, 22, 231, 7, 38, 133, 58, 3, 42, 130, 249, 127,
          31, 9, 63, 165, 196, 114, 195, 231, 84, 129, 213, 212, 44, 17, 26,
          163, 155, 120, 111, 245, 235, 149, 207, 173, 18, 23, 189, 159, 60,
          173, 208, 205, 123, 33, 164, 244, 109, 112, 219, 76, 92, 57, 74, 86,
          1, 73, 29, 6>>],
     [seed |-> Ramp(0, KeyLen), message |-> <<97, 98, 99>>,
      signature |->
        <<171, 250, 106, 5, 133, 109, 43, 183, 157, 146, 8, 57, 156, 33, 159,
          194, 203, 72, 87, 234, 84, 104, 188, 193, 144, 120, 249, 209, 38,
          161, 170, 68, 182, 97, 26, 185, 146, 85, 36, 134, 68, 26, 142, 11,
          158, 149, 40, 130, 177, 70, 147, 126, 238, 33, 19, 155, 29, 228, 92,
          19, 42, 67, 8, 3>>],
     [seed |-> Ramp(1, KeyLen), message |-> <<>>,
      signature |->
        <<20, 7, 2, 142, 221, 83, 149, 13, 202, 72, 182, 94, 160, 206, 252,
          152, 76, 179, 173, 187, 147, 107, 218, 29, 11, 5, 1, 198, 125, 231,
          171, 168, 128, 14, 182, 199, 208, 90, 238, 110, 113, 81, 119, 4, 9,
          55, 46, 19, 6, 25, 4, 182, 70, 224, 234, 163, 205, 172, 74, 250, 5,
          64, 55, 9>>],
     [seed |-> Ramp(1, KeyLen), message |-> <<97, 98, 99>>,
      signature |->
        <<212, 203, 206, 46, 83, 15, 153, 145, 174, 226, 178, 208, 27, 165,
          147, 245, 15, 53, 241, 58, 139, 156, 129, 245, 177, 79, 8, 110, 100,
          171, 10, 75, 228, 75, 92, 84, 251, 76, 32, 87, 76, 213, 7, 175, 70,
          8, 149, 213, 207, 163, 66, 103, 120, 37, 70, 22, 30, 142, 34, 234,
          70, 181, 72, 9>>],
     [seed |-> Ramp(2, KeyLen), message |-> <<>>,
      signature |->
        <<48, 163, 80, 186, 70, 10, 71, 244, 70, 9, 167, 80, 199, 188, 115,
          42, 118, 19, 189, 223, 191, 4, 61, 129, 197, 200, 132, 235, 18, 72,
          37, 21, 51, 175, 111, 129, 245, 174, 96, 134, 200, 134, 244, 10,
          241, 21, 239, 223, 251, 45, 154, 182, 160, 39, 19, 66, 9, 227, 61,
          190, 151, 21, 184, 6>>],
     [seed |-> Ramp(2, KeyLen), message |-> <<97, 98, 99>>,
      signature |->
        <<189, 27, 80, 214, 25, 145, 130, 29, 55, 35, 49, 115, 204, 122, 205,
          25, 190, 152, 152, 237, 205, 192, 150, 22, 97, 188, 89, 201, 44,
          188, 6, 59, 247, 97, 198, 172, 67, 96, 240, 179, 131, 55, 213, 9,
          44, 229, 205, 110, 142, 1, 21, 81, 239, 252, 99, 89, 133, 136, 131,
          90, 52, 23, 36, 8>>],
     [seed |-> Ramp(3, KeyLen), message |-> <<>>,
      signature |->
        <<89, 128, 108, 251, 54, 150, 204, 123, 132, 187, 138, 82, 104, 100,
          175, 131, 118, 235, 32, 4, 207, 94, 213, 32, 39, 21, 211, 238, 32,
          242, 232, 107, 203, 73, 207, 67, 147, 108, 172, 203, 135, 147, 81,
          182, 70, 242, 240, 241, 51, 25, 176, 134, 157, 239, 125, 177, 241,
          233, 106, 2, 237, 80, 214, 14>>],
     [seed |-> Ramp(3, KeyLen), message |-> <<97, 98, 99>>,
      signature |->
        <<220, 58, 94, 48, 188, 209, 105, 26, 202, 230, 138, 172, 91, 15, 208,
          242, 87, 192, 238, 30, 229, 121, 185, 174, 111, 178, 212, 147, 189,
          225, 3, 26, 68, 148, 235, 54, 28, 19, 244, 159, 164, 158, 25, 1,
          228, 34, 34, 139, 89, 223, 72, 161, 137, 166, 183, 89, 34, 49, 74,
          213, 167, 169, 150, 6>>],
     [seed |-> Ramp(4, KeyLen), message |-> <<>>,
      signature |->
        <<62, 94, 12, 25, 140, 74, 239, 106, 246, 122, 207, 196, 40, 244, 201,
          241, 148, 136, 215, 71, 44, 133, 22, 237, 179, 11, 89, 229, 54, 23,
          183, 37, 233, 220, 127, 75, 172, 216, 40, 75, 116, 216, 66, 140, 60,
          112, 241, 96, 172, 179, 70, 197, 46, 3, 91, 79, 44, 244, 38, 47,
          118, 203, 170, 5>>],
     [seed |-> Ramp(4, KeyLen), message |-> <<97, 98, 99>>,
      signature |->
        <<201, 207, 110, 130, 30, 48, 50, 24, 244, 246, 41, 213, 143, 207,
          206, 195, 188, 206, 82, 129, 120, 163, 191, 140, 157, 86, 93, 197,
          148, 219, 106, 41, 3, 17, 206, 136, 232, 129, 189, 231, 73, 250, 17,
          107, 17, 59, 160, 178, 228, 136, 174, 57, 249, 160, 179, 194, 214,
          235, 140, 202, 224, 137, 120, 8>>],
     [seed |-> Ramp(5, KeyLen), message |-> <<>>,
      signature |->
        <<39, 40, 49, 65, 122, 178, 24, 101, 232, 220, 30, 195, 38, 159, 94,
          85, 188, 93, 230, 101, 246, 161, 38, 61, 116, 99, 28, 92, 34, 213,
          101, 216, 185, 60, 32, 137, 127, 55, 115, 32, 123, 174, 170, 109,
          42, 134, 170, 98, 148, 104, 239, 97, 194, 36, 108, 118, 110, 68, 35,
          144, 19, 174, 4, 3>>],
     [seed |-> Ramp(5, KeyLen), message |-> <<97, 98, 99>>,
      signature |->
        <<217, 25, 151, 17, 196, 190, 60, 128, 106, 10, 137, 97, 86, 231, 104,
          18, 47, 54, 152, 172, 158, 59, 51, 192, 219, 24, 28, 175, 196, 96,
          116, 160, 58, 25, 196, 56, 0, 46, 205, 153, 106, 236, 108, 74, 251,
          44, 146, 216, 230, 71, 2, 68, 89, 74, 235, 228, 15, 107, 89, 217,
          147, 35, 176, 6>>],
     [seed |-> Ramp(6, KeyLen), message |-> <<>>,
      signature |->
        <<248, 74, 47, 128, 188, 26, 138, 72, 63, 192, 171, 93, 74, 181, 193,
          146, 188, 136, 39, 69, 189, 52, 111, 100, 62, 105, 151, 115, 115,
          13, 138, 19, 1, 198, 91, 142, 137, 57, 161, 250, 98, 10, 28, 229,
          208, 225, 97, 169, 49, 40, 68, 192, 80, 110, 46, 209, 217, 100, 80,
          188, 34, 5, 133, 15>>],
     [seed |-> Ramp(6, KeyLen), message |-> <<97, 98, 99>>,
      signature |->
        <<95, 197, 56, 54, 225, 138, 112, 246, 222, 111, 39, 0, 18, 122, 182,
          58, 94, 98, 162, 221, 226, 115, 37, 241, 30, 141, 211, 11, 95, 241,
          245, 190, 40, 3, 65, 178, 173, 6, 232, 52, 192, 135, 70, 128, 116,
          49, 124, 137, 199, 92, 182, 190, 114, 19, 154, 190, 51, 82, 112,
          239, 226, 121, 234, 15>>],
     [seed |-> Ramp(7, KeyLen), message |-> <<>>,
      signature |->
        <<216, 65, 70, 221, 81, 123, 127, 233, 53, 69, 191, 184, 167, 197,
          133, 247, 99, 63, 218, 181, 252, 148, 16, 24, 152, 35, 12, 24, 119,
          87, 183, 193, 184, 154, 124, 216, 137, 77, 118, 175, 128, 55, 231,
          148, 96, 228, 112, 101, 20, 116, 86, 153, 161, 42, 140, 93, 7, 47,
          213, 50, 80, 193, 173, 14>>],
     [seed |-> Ramp(7, KeyLen), message |-> <<97, 98, 99>>,
      signature |->
        <<70, 253, 14, 90, 207, 85, 126, 182, 192, 132, 70, 47, 210, 159, 132,
          175, 53, 203, 111, 65, 111, 125, 103, 91, 130, 207, 67, 208, 137,
          230, 91, 108, 152, 227, 233, 201, 91, 132, 80, 156, 142, 171, 114,
          87, 207, 29, 94, 57, 246, 225, 74, 152, 238, 214, 72, 53, 238, 80,
          106, 75, 110, 195, 191, 13>>],
     [seed |-> Ramp(8, KeyLen), message |-> <<>>,
      signature |->
        <<154, 126, 160, 194, 243, 5, 151, 130, 57, 157, 255, 46, 112, 195,
          169, 16, 58, 137, 214, 179, 7, 74, 55, 127, 248, 240, 204, 35, 38,
          87, 12, 141, 131, 102, 236, 237, 72, 207, 127, 55, 58, 47, 47, 2,
          22, 204, 150, 65, 157, 192, 48, 161, 23, 211, 81, 174, 111, 110,
          185, 42, 17, 122, 173, 10>>],
     [seed |-> Ramp(8, KeyLen), message |-> <<97, 98, 99>>,
      signature |->
        <<9, 120, 16, 139, 127, 206, 30, 54, 56, 24, 112, 144, 50, 111, 233,
          222, 59, 105, 217, 163, 29, 168, 176, 229, 191, 21, 238, 6, 67, 98,
          221, 183, 130, 166, 212, 146, 158, 169, 59, 222, 43, 222, 33, 117,
          48, 126, 74, 234, 251, 120, 114, 38, 37, 139, 118, 215, 254, 203,
          82, 84, 125, 49, 234, 2>>],
     [seed |-> Ramp(9, KeyLen), message |-> <<>>,
      signature |->
        <<249, 1, 21, 243, 241, 247, 45, 70, 91, 243, 202, 73, 38, 200, 25,
          101, 36, 33, 29, 110, 248, 44, 83, 140, 76, 133, 92, 246, 197, 209,
          226, 187, 169, 62, 98, 58, 165, 251, 91, 242, 30, 206, 238, 75, 180,
          204, 149, 187, 186, 5, 105, 189, 49, 111, 27, 169, 77, 47, 210, 103,
          146, 184, 11, 10>>],
     [seed |-> Ramp(9, KeyLen), message |-> <<97, 98, 99>>,
      signature |->
        <<82, 173, 77, 101, 23, 151, 133, 23, 113, 160, 200, 164, 50, 225, 63,
          230, 9, 138, 52, 82, 247, 243, 178, 251, 236, 120, 115, 154, 251,
          139, 166, 192, 213, 238, 74, 182, 156, 9, 212, 252, 188, 107, 239,
          138, 7, 116, 45, 99, 55, 239, 195, 19, 226, 157, 44, 153, 110, 211,
          140, 49, 104, 219, 94, 7>>],
     [seed |-> Ramp(10, KeyLen), message |-> <<>>,
      signature |->
        <<44, 18, 79, 134, 65, 230, 30, 248, 195, 242, 152, 220, 234, 11, 193,
          109, 226, 171, 144, 166, 148, 34, 205, 116, 52, 70, 3, 74, 226, 141,
          104, 202, 194, 90, 22, 144, 249, 36, 153, 172, 41, 25, 47, 79, 32,
          143, 37, 132, 5, 250, 186, 70, 129, 107, 28, 23, 95, 161, 124, 64,
          53, 250, 200, 0>>],
     [seed |-> Ramp(10, KeyLen), message |-> <<97, 98, 99>>,
      signature |->
        <<29, 211, 187, 222, 2, 135, 224, 29, 39, 205, 167, 87, 81, 144, 231,
          63, 138, 78, 78, 120, 122, 138, 105, 29, 8, 186, 171, 58, 238, 100,
          185, 58, 155, 127, 118, 132, 63, 161, 144, 85, 231, 65, 228, 33,
          248, 54, 141, 8, 226, 218, 253, 161, 24, 115, 92, 254, 22, 13, 104,
          5, 4, 37, 142, 13>>],
     [seed |-> Ramp(11, KeyLen), message |-> <<>>,
      signature |->
        <<36, 232, 125, 137, 242, 191, 49, 192, 133, 9, 212, 205, 85, 227,
          191, 201, 138, 41, 78, 152, 173, 171, 137, 62, 182, 244, 70, 192,
          16, 28, 179, 167, 4, 193, 246, 105, 51, 254, 184, 178, 172, 35, 221,
          18, 185, 122, 150, 212, 160, 246, 177, 147, 31, 28, 247, 13, 182,
          102, 7, 17, 126, 236, 137, 1>>],
     [seed |-> Ramp(11, KeyLen), message |-> <<97, 98, 99>>,
      signature |->
        <<79, 148, 8, 59, 95, 38, 136, 154, 47, 226, 146, 40, 53, 192, 206,
          15, 114, 0, 37, 134, 177, 152, 17, 90, 23, 216, 65, 175, 59, 150,
          30, 61, 193, 254, 75, 44, 25, 86, 170, 2, 42, 93, 218, 75, 57, 101,
          95, 21, 224, 194, 126, 139, 237, 55, 83, 214, 10, 205, 149, 119, 94,
          135, 155, 0>>],
     [seed |-> Ramp(12, KeyLen), message |-> <<>>,
      signature |->
        <<223, 19, 243, 96, 22, 64, 142, 177, 131, 9, 221, 190, 120, 34, 241,
          228, 58, 6, 57, 71, 84, 47, 245, 217, 27, 116, 195, 214, 192, 83,
          21, 239, 208, 53, 27, 203, 110, 74, 165, 125, 37, 1, 242, 113, 49,
          183, 28, 66, 217, 5, 160, 169, 56, 108, 121, 126, 197, 76, 161, 222,
          29, 240, 84, 3>>],
     [seed |-> Ramp(12, KeyLen), message |-> <<97, 98, 99>>,
      signature |->
        <<226, 20, 184, 129, 117, 122, 203, 4, 183, 13, 117, 98, 29, 154, 13,
          125, 15, 95, 53, 46, 1, 193, 28, 31, 146, 24, 30, 119, 79, 78, 164,
          182, 39, 206, 17, 85, 127, 127, 157, 35, 228, 148, 54, 163, 25, 49,
          143, 61, 252, 231, 17, 50, 183, 178, 69, 164, 208, 87, 74, 143, 212,
          142, 40, 11>>],
     [seed |-> Ramp(13, KeyLen), message |-> <<>>,
      signature |->
        <<94, 222, 38, 16, 101, 246, 104, 24, 81, 26, 5, 11, 152, 101, 245,
          127, 253, 253, 234, 239, 199, 180, 250, 206, 34, 245, 233, 161, 237,
          149, 216, 112, 221, 76, 142, 216, 78, 38, 56, 168, 235, 12, 129,
          126, 226, 85, 153, 43, 137, 47, 189, 248, 73, 124, 5, 222, 98, 178,
          98, 195, 252, 109, 185, 5>>],
     [seed |-> Ramp(13, KeyLen), message |-> <<97, 98, 99>>,
      signature |->
        <<27, 246, 252, 246, 91, 183, 24, 88, 92, 171, 31, 25, 161, 170, 213,
          45, 106, 128, 80, 102, 145, 180, 43, 172, 212, 5, 223, 177, 173,
          255, 33, 221, 20, 118, 56, 101, 99, 231, 115, 65, 115, 178, 208, 42,
          172, 75, 239, 215, 63, 45, 188, 153, 10, 103, 35, 191, 4, 137, 236,
          136, 103, 53, 231, 2>>],
     [seed |-> Ramp(14, KeyLen), message |-> <<>>,
      signature |->
        <<253, 199, 34, 78, 169, 174, 104, 131, 184, 246, 194, 4, 100, 155,
          211, 241, 154, 114, 11, 251, 52, 102, 148, 73, 106, 151, 63, 139,
          214, 24, 87, 36, 1, 9, 118, 232, 78, 225, 151, 126, 0, 234, 213,
          124, 179, 208, 68, 124, 40, 113, 188, 235, 168, 233, 53, 94, 118,
          30, 73, 253, 82, 245, 95, 1>>],
     [seed |-> Ramp(14, KeyLen), message |-> <<97, 98, 99>>,
      signature |->
        <<8, 39, 141, 42, 112, 9, 250, 83, 242, 136, 71, 213, 23, 111, 33, 36,
          35, 117, 112, 253, 103, 188, 235, 62, 91, 162, 202, 151, 53, 123,
          92, 202, 245, 101, 65, 244, 29, 75, 98, 119, 16, 26, 235, 58, 100,
          156, 84, 164, 244, 250, 210, 248, 103, 46, 230, 226, 225, 228, 103,
          1, 189, 212, 67, 5>>],
     [seed |-> Ramp(15, KeyLen), message |-> <<>>,
      signature |->
        <<145, 99, 80, 107, 45, 27, 223, 249, 232, 112, 211, 178, 97, 153,
          206, 221, 92, 165, 182, 23, 28, 151, 226, 202, 230, 188, 9, 53, 241,
          80, 170, 199, 196, 132, 128, 142, 56, 245, 195, 138, 86, 228, 14,
          201, 51, 14, 6, 147, 191, 213, 105, 114, 160, 231, 244, 196, 95, 36,
          177, 12, 106, 47, 18, 5>>],
     [seed |-> Ramp(15, KeyLen), message |-> <<97, 98, 99>>,
      signature |->
        <<165, 146, 162, 215, 131, 28, 107, 189, 0, 24, 148, 178, 186, 224,
          37, 35, 112, 214, 142, 27, 217, 250, 248, 136, 209, 104, 91, 122,
          137, 113, 91, 175, 119, 2, 200, 216, 180, 37, 121, 88, 199, 64, 184,
          106, 117, 54, 168, 70, 81, 6, 153, 90, 88, 77, 252, 0, 176, 124, 85,
          145, 208, 73, 148, 4>>]}

OnCurveY ==
    {0, 1, 3, 4, 5, 6, 9, 10, 14, 15, 16, 18, 19, 21, 23, 24, 25, 26, 27,
     28, 29, 30, 32, 33, 35, 37, 39, 40, 42, 43, 44, 48, 51, 52, 54, 55,
     56, 57, 58, 60, 61, 62, 63, 65, 67, 70, 75, 77, 78, 84, 85, 86, 87,
     89, 90, 91, 97, 100, 101, 102, 108, 111, 112, 116, 119, 120, 121, 127,
     128, 129, 131, 133, 138, 139, 141, 143, 144, 149, 150, 151, 160, 161,
     162, 165, 166, 171, 172, 174, 176, 178, 180, 181, 183, 187, 191, 192,
     193, 195, 198, 200, 201, 203, 204, 209, 210, 212, 213, 214, 217, 218,
     220, 221, 227, 232, 234, 236, 237, 238, 239, 242, 246, 247, 248, 250,
     251, 252, 254, 255}

OtherAccepted ==
    {[public |->
        <<0, 0, 0, 0, 0, 0, 0, 0, 0, 0, 0, 0, 0, 0, 0, 0, 0, 0, 0, 0, 0, 0, 0,
          0, 0, 0, 0, 0, 0, 0, 0, 0>>,
      message |-> <<97, 98, 99>>,
      signature |->
        <<236, 255, 255, 255, 255, 255, 255, 255, 255, 255, 255, 255, 255,
          255, 255, 255, 255, 255, 255, 255, 255, 255, 255, 255, 255, 255,
          255, 255, 255, 255, 255, 127, 0, 0, 0, 0, 0, 0, 0, 0, 0, 0, 0, 0, 0,
          0, 0, 0, 0, 0, 0, 0, 0, 0, 0, 0, 0, 0, 0, 0, 0, 0, 0, 0>>],
     [public |->
        <<1, 0, 0, 0, 0, 0, 0, 0, 0, 0, 0, 0, 0, 0, 0, 0, 0, 0, 0, 0, 0, 0, 0,
          0, 0, 0, 0, 0, 0, 0, 0, 0>>,
      message |-> <<>>,
      signature |->
        <<1, 0, 0, 0, 0, 0, 0, 0, 0, 0, 0, 0, 0, 0, 0, 0, 0, 0, 0, 0, 0, 0, 0,
          0, 0, 0, 0, 0, 0, 0, 0, 0, 0, 0, 0, 0, 0, 0, 0, 0, 0, 0, 0, 0, 0, 0,
          0, 0, 0, 0, 0, 0, 0, 0, 0, 0, 0, 0, 0, 0, 0, 0, 0, 0>>],
     [public |->
        <<1, 0, 0, 0, 0, 0, 0, 0, 0, 0, 0, 0, 0, 0, 0, 0, 0, 0, 0, 0, 0, 0, 0,
          0, 0, 0, 0, 0, 0, 0, 0, 0>>,
      message |-> <<>>,
      signature |->
        <<88, 102, 102, 102, 102, 102, 102, 102, 102, 102, 102, 102, 102, 102,
          102, 102, 102, 102, 102, 102, 102, 102, 102, 102, 102, 102, 102,
          102, 102, 102, 102, 102, 1, 0, 0, 0, 0, 0, 0, 0, 0, 0, 0, 0, 0, 0,
          0, 0, 0, 0, 0, 0, 0, 0, 0, 0, 0, 0, 0, 0, 0, 0, 0, 0>>],
     [public |->
        <<1, 0, 0, 0, 0, 0, 0, 0, 0, 0, 0, 0, 0, 0, 0, 0, 0, 0, 0, 0, 0, 0, 0,
          0, 0, 0, 0, 0, 0, 0, 0, 0>>,
      message |-> <<97, 98, 99>>,
      signature |->
        <<1, 0, 0, 0, 0, 0, 0, 0, 0, 0, 0, 0, 0, 0, 0, 0, 0, 0, 0, 0, 0, 0, 0,
          0, 0, 0, 0, 0, 0, 0, 0, 0, 0, 0, 0, 0, 0, 0, 0, 0, 0, 0, 0, 0, 0, 0,
          0, 0, 0, 0, 0, 0, 0, 0, 0, 0, 0, 0, 0, 0, 0, 0, 0, 0>>],
     [public |->
        <<1, 0, 0, 0, 0, 0, 0, 0, 0, 0, 0, 0, 0, 0, 0, 0, 0, 0, 0, 0, 0, 0, 0,
          0, 0, 0, 0, 0, 0, 0, 0, 0>>,
      message |-> <<97, 98, 99>>,
      signature |->
        <<88, 102, 102, 102, 102, 102, 102, 102, 102, 102, 102, 102, 102, 102,
          102, 102, 102, 102, 102, 102, 102, 102, 102, 102, 102, 102, 102,
          102, 102, 102, 102, 102, 1, 0, 0, 0, 0, 0, 0, 0, 0, 0, 0, 0, 0, 0,
          0, 0, 0, 0, 0, 0, 0, 0, 0, 0, 0, 0, 0, 0, 0, 0, 0, 0>>],
     [public |->
        <<136, 72, 106, 42, 44, 255, 8, 62, 17, 99, 248, 117, 162, 155, 82,
          30, 188, 222, 19, 75, 151, 163, 145, 210, 165, 115, 110, 92, 210,
          217, 159, 224>>,
      message |-> <<>>,
      signature |->
        <<23, 255, 173, 128, 104, 220, 13, 233, 147, 93, 54, 99, 111, 58, 209,
          181, 222, 109, 227, 65, 59, 18, 56, 142, 69, 59, 5, 242, 164, 193,
          211, 219, 245, 36, 224, 155, 162, 175, 87, 18, 238, 166, 161, 96,
          96, 90, 77, 202, 35, 194, 128, 4, 171, 188, 92, 199, 87, 169, 201,
          60, 244, 243, 66, 1>>],
     [public |->
        <<252, 62, 225, 99, 250, 132, 3, 241, 201, 117, 224, 218, 25, 249, 68,
          158, 215, 254, 245, 162, 69, 215, 91, 88, 223, 34, 104, 134, 208,
          106, 13, 140>>,
      message |-> <<97, 98, 99>>,
      signature |->
        <<23, 255, 173, 128, 104, 220, 13, 233, 147, 93, 54, 99, 111, 58, 209,
          181, 222, 109, 227, 65, 59, 18, 56, 142, 69, 59, 5, 242, 164, 193,
          211, 219, 24, 154, 167, 107, 104, 244, 3, 226, 86, 233, 136, 0, 13,
          164, 202, 174, 47, 3, 179, 115, 210, 233, 24, 92, 159, 100, 80, 39,
          53, 87, 127, 6>>]}

\* The order of the base point, 2^252 + 27742317777372353535851937790883648493,
\* as 32 little-endian bytes.
GroupOrderBytes ==
    <<237, 211, 245, 92, 26, 99, 18, 88, 214, 156, 247, 162, 222, 249, 222,
      20, 0, 0, 0, 0, 0, 0, 0, 0, 0, 0, 0, 0, 0, 0, 0, 16>>

PublicKeyOf(seed) == (CHOOSE e \in KeyTable : e.seed = seed).public

\* CompressedEdwardsY::decompress succeeding: on the public keys of KeyTable
\* and on the strings <<y, 0, ..., 0>>.
Decompressible(bytes) ==
    CASE \E e \in KeyTable : e.public = bytes -> TRUE
      [] \A i \in 2..KeyLen : bytes[i] = 0 -> bytes[1] \in OnCurveY

\* A scalar encoding is canonical when its value is below the group order.
IsCanonicalScalar(b) ==
    \E i \in 1..KeyLen :
        /\ b[i] < GroupOrderBytes[i]
        /\ \A j \in (i + 1)..KeyLen : b[j] = GroupOrderBytes[j]

\* SigningKey::from_bytes: total on 32 bytes; the key keeps the seed and the
\* compressed public key derived from it.
SigningKey_from_bytes(key_bytes) ==
    [secret_key |-> key_bytes, verifying_key |-> PublicKeyOf(key_bytes)]

\* SigningKey::verifying_key followed by VerifyingKey::to_bytes.
verifying_key_to_bytes(signing_key) == signing_key.verifying_key

\* Signer::sign followed by Signature::to_bytes: R || S, deterministic.
sign_to_bytes(signing_key, message) ==
    (CHOOSE e \in SignatureTable :
        e.seed = signing_key.secret_key /\ e.message = message).signature

\* VerifyingKey::from_bytes: fails when the bytes are not a curve point; the
\* error is the Display of signature::Error with its source.
VerifyingKey_from_bytes(pub_key_bytes) ==
    IF Decompressible(pub_key_bytes)
    THEN [ok |-> TRUE, compressed |-> pub_key_bytes]
    ELSE [ok |-> FALSE,
          error |-> <<"signature error: Cannot decompress Edwards point">>]

\* Every triple Verifier::verify accepts among those of the tables.
Accepted ==
    {[public |-> PublicKeyOf(e.seed), message |-> e.message,
      signature |-> e.signature] : e \in SignatureTable} \cup OtherAccepted

TabulatedMessages == {e.message : e \in SignatureTable}
TabulatedSignatures == {e.signature : e \in Accepted}

\* A signature with the lowest bit of S flipped.
FlipBit(sig) == [sig EXCEPT ![KeyLen + 1] = IF sig[KeyLen + 1] % 2 = 0
                                            THEN sig[KeyLen + 1] + 1
                                            ELSE sig[KeyLen + 1] - 1]

\* Verifier::verify on Signature::from_bytes(sig_bytes): Ok(()) is TRUE.  A
\* signature whose S is not canonical is rejected whatever the rest.  The
\* outcome of the equation [S]B = R + [k]A is tabulated for the keys that
\* Decompressible covers, the messages of the tables, and the signatures of
\* the tables as they are or with the lowest bit of S flipped.
verify(verifying_key, message, sig_bytes) ==
    CASE ~IsCanonicalScalar(SubSeq(sig_bytes, KeyLen + 1, SigLen)) -> FALSE
      [] /\ IsCanonicalScalar(SubSeq(sig_bytes, KeyLen + 1, SigLen))
         /\ message \in TabulatedMessages
         /\ \/ sig_bytes \in TabulatedSignatures
            \/ FlipBit(sig_bytes) \in TabulatedSignatures ->
             [public |-> verifying_key.compressed, message |-> message,
              signature |-> sig_bytes] \in Accepted

(***************************************************************************)
(* Strings.                                                                *)
(***************************************************************************)
DigitChars == <<"0", "1", "2", "3", "4", "5", "6", "7", "8", "9">>
HexChars == DigitChars \o <<"a", "b", "c", "d", "e", "f">>

\* format!("{}", n) of an unsigned integer.
RECURSIVE Decimal(_)
Decimal(n) == IF n < 10 THEN <<DigitChars[n + 1]>>
              ELSE Decimal(n \div 10) \o <<DigitChars[(n % 10) + 1]>>

\* Variant: the low nibble written first.
hex_encode_low_first(bytes) ==
    [i \in 1..(2 * Len(bytes)) |->
        IF i % 2 = 1 THEN HexChars[(bytes[(i + 1) \div 2] % 16) + 1]
        ELSE HexChars[(bytes[i \div 2] \div 16) + 1]]

\* hex::encode: two lowercase digits per byte, high nibble first.
hex_encode(bytes) ==
    [i \in 1..(2 * Len(bytes)) |->
        IF i % 2 = 1 THEN HexChars[(bytes[(i + 1) \div 2] \div 16) + 1]
        ELSE HexChars[(bytes[i \div 2] % 16) + 1]]

\* <[u8]>::copy_from_slice: every byte of src into dst; it panics, and has
\* no value, when the lengths differ.
copy_from_slice(dst, src) ==
    CASE Len(dst) = Len(src) -> [i \in 1..Len(dst) |-> src[i]]

(***************************************************************************)
(* Results.  ret is the value returned to the caller; calls lists the      *)
(* primitives the call evaluated, in order.                                *)
(***************************************************************************)
Ok(v) == [ok |-> TRUE, val |-> v]
Err(kind, reason) == [ok |-> FALSE, kind |-> kind, reason |-> reason]

ErrorKinds == {"InvalidPrivateKey", "InvalidPublicKey", "InvalidSignature",
               "SigningFailed", "VerificationFailed"}

(***************************************************************************)
(* The operations of lib.rs.                                               *)
(***************************************************************************)
\* Variant: the two fields stored in each other's place.
Ed25519KeyPair_new_swapped(public_key, private_key) ==
    [public_key |-> private_key, private_key |-> public_key]

Ed25519KeyPair_new(public_key, private_key) ==
    [public_key |-> public_key, private_key |-> private_key]

get_public_key(self) == self.public_key
get_private_key(self) == self.private_key
get_public_key_hex(self) == hex_encode(self.public_key)
get_private_key_hex(self) == hex_encode(self.private_key)

\* Variant: the signing key built from the array before it was filled.
generate_keypair_unfilled(secret_key_bytes) ==
    LET signing_key == SigningKey_from_bytes(Zeros(32))
        private_key == secret_key_bytes
        public_key  == verifying_key_to_bytes(signing_key)
    IN  [ret |-> [public_key |-> public_key, private_key |-> private_key],
         calls |-> <<"OsRng::fill_bytes", "SigningKey::from_bytes", "verifying_key">>]

\* secret_key_bytes is what OsRng.fill_bytes wrote.
generate_keypair(secret_key_bytes) ==
    LET signing_key == SigningKey_from_bytes(secret_key_bytes)
        private_key == secret_key_bytes
        public_key  == verifying_key_to_bytes(signing_key)
    IN  [ret |-> [public_key |-> public_key, private_key |-> private_key],
         calls |-> <<"OsRng::fill_bytes", "SigningKey::from_bytes", "verifying_key">>]

\* Variant: key_bytes left zeroed (the copy from private_key forgotten).
sign_message_no_copy(message, private_key) ==
    IF Len(private_key) # 32
    THEN [ret |-> Err("InvalidPrivateKey",
                      <<"Private key must be exactly 32 bytes, got ">>
                          \o Decimal(Len(private_key))),
          calls |-> <<>>]
    ELSE LET key_bytes == Zeros(32)
             signing_key == SigningKey_from_bytes(key_bytes)
         IN  [ret |-> Ok(sign_to_bytes(signing_key, message)),
              calls |-> <<"SigningKey::from_bytes", "sign">>]

sign_message(message, private_key) ==
    IF Len(private_key) # 32
    THEN [ret |-> Err("InvalidPrivateKey",
                      <<"Private key must be exactly 32 bytes, got ">>
                          \o Decimal(Len(private_key))),
          calls |-> <<>>]
    ELSE LET key_bytes == copy_from_slice(Zeros(32), private_key)
             signing_key == SigningKey_from_bytes(key_bytes)
         IN  [ret |-> Ok(sign_to_bytes(signing_key, message)),
              calls |-> <<"SigningKey::from_bytes", "sign">>]

\* Variant: the public key decoded before the signature length is checked.
verify_signature_decode_first(message, signature, public_key) ==
    IF Len(public_key) # 32
    THEN [ret |-> Err("InvalidPublicKey",
                      <<"Public key must be exactly 32 bytes, got ">>
                          \o Decimal(Len(public_key))),
          calls |-> <<>>]
    ELSE LET pub_key_bytes == copy_from_slice(Zeros(32), public_key)
             verifying_key == VerifyingKey_from_bytes(pub_key_bytes)
         IN  IF ~verifying_key.ok
             THEN [ret |-> Err("InvalidPublicKey", verifying_key.error),
                   calls |-> <<"VerifyingKey::from_bytes">>]
             ELSE IF Len(signature) # 64
             THEN [ret |-> Err("InvalidSignature",
                               <<"Signature must be exactly 64 bytes, got ">>
                                   \o Decimal(Len(signature))),
                   calls |-> <<"VerifyingKey::from_bytes">>]
             ELSE LET sig_bytes == copy_from_slice(Zeros(64), signature)
                  IN  [ret |-> IF verify(verifying_key, message, sig_bytes)
                                THEN Ok(TRUE) ELSE Ok(FALSE),
                       calls |-> <<"VerifyingKey::from_bytes", "Signature::from_bytes",
                                   "verify">>]

\* Variant: a rejected signature reported as an error.
verify_signature_reject_is_error(message, signature, public_key) ==
    IF Len(public_key) # 32
    THEN [ret |-> Err("InvalidPublicKey",
                      <<"Public key must be exactly 32 bytes, got ">>
                          \o Decimal(Len(public_key))),
          calls |-> <<>>]
    ELSE IF Len(signature) # 64
    THEN [ret |-> Err("InvalidSignature",
                      <<"Signature must be exactly 64 bytes, got ">>
                          \o Decimal(Len(signature))),
          calls |-> <<>>]
    ELSE LET pub_key_bytes == copy_from_slice(Zeros(32), public_key)
             sig_bytes == copy_from_slice(Zeros(64), signature)
             verifying_key == VerifyingKey_from_bytes(pub_key_bytes)
         IN  IF ~verifying_key.ok
             THEN [ret |-> Err("InvalidPublicKey", verifying_key.error),
                   calls |-> <<"VerifyingKey::from_bytes">>]
             ELSE [ret |-> IF verify(verifying_key, message, sig_bytes)
                           THEN Ok(TRUE)
                           ELSE Err("InvalidSignature", <<"signature error">>),
                   calls |-> <<"VerifyingKey::from_bytes", "Signature::from_bytes",
                               "verify">>]

\* Variant: a key that does not decode reported as VerificationFailed.
verify_signature_decode_failed(message, signature, public_key) ==
    IF Len(public_key) # 32
    THEN [ret |-> Err("InvalidPublicKey",
                      <<"Public key must be exactly 32 bytes, got ">>
                          \o Decimal(Len(public_key))),
          calls |-> <<>>]
    ELSE IF Len(signature) # 64
    THEN [ret |-> Err("InvalidSignature",
                      <<"Signature must be exactly 64 bytes, got ">>
                          \o Decimal(Len(signature))),
          calls |-> <<>>]
    ELSE LET pub_key_bytes == copy_from_slice(Zeros(32), public_key)
             sig_bytes == copy_from_slice(Zeros(64), signature)
             verifying_key == VerifyingKey_from_bytes(pub_key_bytes)
         IN  IF ~verifying_key.ok
             THEN [ret |-> Err("VerificationFailed", verifying_key.error),
                   calls |-> <<"VerifyingKey::from_bytes">>]
             ELSE [ret |-> IF verify(verifying_key, message, sig_bytes)
                           THEN Ok(TRUE) ELSE Ok(FALSE),
                   calls |-> <<"VerifyingKey::from_bytes", "Signature::from_bytes",
                               "verify">>]

verify_signature(message, signature, public_key) ==
    IF Len(public_key) # 32
    THEN [ret |-> Err("InvalidPublicKey",
                      <<"Public key must be exactly 32 bytes, got ">>
                          \o Decimal(Len(public_key))),
          calls |-> <<>>]
    ELSE IF Len(signature) # 64
    THEN [ret |-> Err("InvalidSignature",
                      <<"Signature must be exactly 64 bytes, got ">>
                          \o Decimal(Len(signature))),
          calls |-> <<>>]
    ELSE LET pub_key_bytes == copy_from_slice(Zeros(32), public_key)
             sig_bytes == copy_from_slice(Zeros(64), signature)
             verifying_key == VerifyingKey_from_bytes(pub_key_bytes)
         IN  IF ~verifying_key.ok
             THEN [ret |-> Err("InvalidPublicKey", verifying_key.error),
                   calls |-> <<"VerifyingKey::from_bytes">>]
             ELSE [ret |-> IF verify(verifying_key, message, sig_bytes)
                           THEN Ok(TRUE) ELSE Ok(FALSE),
                   calls |-> <<"VerifyingKey::from_bytes", "Signature::from_bytes",
                               "verify">>]

\* Variant: only keys that are too short refused; a longer key is cut to
\* its first 32 bytes.
keypair_from_private_key_at_least(private_key) ==
    IF Len(private_key) < 32
    THEN [ret |-> Err("InvalidPrivateKey",
                      <<"Private key must be exactly 32 bytes, got ">>
                          \o Decimal(Len(private_key))),
          calls |-> <<>>]
    ELSE LET key_bytes == copy_from_slice(Zeros(32), SubSeq(private_key, 1, 32))
             signing_key == SigningKey_from_bytes(key_bytes)
             public_key == verifying_key_to_bytes(signing_key)
         IN  [ret |-> Ok([public_key |-> public_key, private_key |-> private_key]),
              calls |-> <<"SigningKey::from_bytes", "verifying_key">>]

keypair_from_private_key(private_key) ==
    IF Len(private_key) # 32
    THEN [ret |-> Err("InvalidPrivateKey",
                      <<"Private key must be exactly 32 bytes, got ">>
                          \o Decimal(Len(private_key))),
          calls |-> <<>>]
    ELSE LET key_bytes == copy_from_slice(Zeros(32), private_key)
             signing_key == SigningKey_from_bytes(key_bytes)
             public_key == verifying_key_to_bytes(signing_key)
         IN  [ret |-> Ok([public_key |-> public_key, private_key |-> private_key]),
              calls |-> <<"SigningKey::from_bytes", "verifying_key">>]

(***************************************************************************)
(* The inputs the host draws its arguments from.                           *)
(***************************************************************************)
\* The messages the host signs and checks: the empty one and "abc".
Messages == {<<>>, <<97, 98, 99>>}

SeedStarts == {3, 4}
RandomStarts == {3, 5}
WrongPrivateLens == {0, 16, 31, 33, 64}
WrongPublicLens == {31}
WrongSignatureLens == {63, 65}

Seeds == {Ramp(b, KeyLen) : b \in SeedStarts}
RandomSeeds == {Ramp(b, KeyLen) : b \in RandomStarts}
PrivateKeyInputs == Seeds \cup {Ramp(9, n) : n \in WrongPrivateLens}

\* 32 bytes whose y coordinate (2) is on no point of the curve.
BadPoint == [i \in 1..KeyLen |-> IF i = 1 THEN 2 ELSE 0]

\* 32 bytes that decode to a point of the curve (y = 4) which is the public
\* key of none of the seeds.
StrayPoint == [i \in 1..KeyLen |-> IF i = 1 THEN 4 ELSE 0]

\* The encoding of the neutral element of the curve (y = 1), a public key of
\* order 1.
IdentityPoint == [i \in 1..KeyLen |-> IF i = 1 THEN 1 ELSE 0]

\* The public keys and the signatures the host holds come from the service.
DerivedPublicKeys == {keypair_from_private_key(k).ret.val.public_key : k \in Seeds}
PublicKeyInputs ==
    DerivedPublicKeys \cup {BadPoint, StrayPoint, IdentityPoint}
        \cup {Ramp(9, n) : n \in WrongPublicLens}

\* A signature with S raised by the group order (the same scalar, not
\* canonically encoded).
RECURSIVE Carry(_, _, _)
Carry(a, b, i) == IF i = 1 THEN 0
                  ELSE (a[i - 1] + b[i - 1] + Carry(a, b, i - 1)) \div 256
AddLe(a, b) == [i \in 1..Len(a) |-> (a[i] + b[i] + Carry(a, b, i)) % 256]
NonCanonical(sig) ==
    SubSeq(sig, 1, KeyLen) \o AddLe(SubSeq(sig, KeyLen + 1, SigLen), GroupOrderBytes)

GoodSignatures == {sign_message(m, k).ret.val : k \in Seeds, m \in Messages}
TamperedSignatures ==
    {FlipBit(sign_message(<<>>, Ramp(3, KeyLen)).ret.val),
     NonCanonical(sign_message(<<>>, Ramp(3, KeyLen)).ret.val)}
\* Signatures that sign_message did not make and verification accepts: R the
\* neutral element with S = 0, accepted under IdentityPoint for every
\* message, and signatures made for a derived key with another nonce.
UnsignedSignatures ==
    {e.signature : e \in {x \in OtherAccepted :
                              x.public \in DerivedPublicKeys \cup {IdentityPoint}}}
SignatureInputs ==
    GoodSignatures \cup TamperedSignatures \cup UnsignedSignatures
        \cup {Ramp(9, n) : n \in WrongSignatureLens}

\* What the host passes to the raw constructor: a public key with a private
\* key it does not belong to, and keys of other lengths.
NewInputs ==
    {[public_key |-> keypair_from_private_key(Ramp(3, KeyLen)).ret.val.public_key,
      private_key |-> Ramp(4, KeyLen)],
     [public_key |-> Ramp(9, 31), private_key |-> Ramp(9, 33)]}

\* The operations applied to every input the host can supply: one record
\* per call, with its arguments and what the operation gives on them.
GenerateCalls ==
    {[args |-> [secret_key_bytes |-> k], out |-> generate_keypair(k)] : k \in RandomSeeds}
SignCalls ==
    {[args |-> [message |-> m, private_key |-> k], out |-> sign_message(m, k)] :
        m \in Messages, k \in PrivateKeyInputs}
VerifyCalls ==
    {[args |-> [message |-> m, signature |-> s, public_key |-> p],
      out |-> verify_signature(m, s, p)] :
        m \in Messages, s \in SignatureInputs, p \in PublicKeyInputs}
KeypairCalls ==
    {[args |-> [private_key |-> k], out |-> keypair_from_private_key(k)] :
        k \in PrivateKeyInputs}

(***************************************************************************)
(* The state machine: one action per exported operation.                   *)
(***************************************************************************)
\* Arc::new: a new object next to the existing ones.
ArcNew(heap, object) == Append(heap, object)

\* The record of a creation: the operation and the value it made.
Created(by, kp) == [by |-> by, made |-> kp]

Init ==
    /\ pairs = <<>>
    /\ origin = <<>>
    /\ last = None
    /\ entropy = <<>>
    /\ firstSign = None

New(public_key, private_key) ==
    /\ Len(pairs) < MaxPairs
    /\ LET kp == Ed25519KeyPair_new(public_key, private_key)
       IN  /\ pairs' = ArcNew(pairs, kp)
           /\ origin' = Append(origin, Created("new", kp))
           /\ last' = [op |-> "new",
                       args |-> [public_key |-> public_key, private_key |-> private_key],
                       ret |-> kp, calls |-> <<>>]
    /\ UNCHANGED <<entropy, firstSign>>

\* Variant: the key moved out of the object instead of cloned.
GetPublicKeyTake(i) ==
    /\ last' = [op |-> "get_public_key", args |-> [self |-> i],
                ret |-> get_public_key(pairs[i]), calls |-> <<>>]
    /\ pairs' = [pairs EXCEPT ![i].public_key = <<>>]
    /\ UNCHANGED <<origin, entropy, firstSign>>

GetPublicKey(i) ==
    /\ last' = [op |-> "get_public_key", args |-> [self |-> i],
                ret |-> get_public_key(pairs[i]), calls |-> <<>>]
    /\ UNCHANGED <<pairs, origin, entropy, firstSign>>

GetPrivateKey(i) ==
    /\ last' = [op |-> "get_private_key", args |-> [self |-> i],
                ret |-> get_private_key(pairs[i]), calls |-> <<>>]
    /\ UNCHANGED <<pairs, origin, entropy, firstSign>>

GetPublicKeyHex(i) ==
    /\ last' = [op |-> "get_public_key_hex", args |-> [self |-> i],
                ret |-> get_public_key_hex(pairs[i]), calls |-> <<>>]
    /\ UNCHANGED <<pairs, origin, entropy, firstSign>>

GetPrivateKeyHex(i) ==
    /\ last' = [op |-> "get_private_key_hex", args |-> [self |-> i],
                ret |-> get_private_key_hex(pairs[i]), calls |-> <<>>]
    /\ UNCHANGED <<pairs, origin, entropy, firstSign>>

\* The bytes read from OsRng are any of the seeds the random source can give.
GenerateKeypair ==
    /\ Len(pairs) < MaxPairs
    /\ \E c \in GenerateCalls :
          /\ pairs' = ArcNew(pairs, c.out.ret)
          /\ origin' = Append(origin, Created("generate_keypair", c.out.ret))
          /\ last' = [op |-> "generate_keypair", args |-> <<>>,
                      ret |-> c.out.ret, calls |-> c.out.calls]
    /\ entropy' = Append(entropy, "generate_keypair")
    /\ UNCHANGED firstSign

\* Variant: key_bytes filled from OsRng, as generate_keypair fills its
\* secret key, instead of copied from private_key.
SignMessageCallFilled(c) ==
    IF c.out.ret.ok
    THEN \E secret_key_bytes \in RandomSeeds :
            /\ last' = [op |-> "sign_message", args |-> c.args,
                        ret |-> sign_message(c.args.message, secret_key_bytes).ret,
                        calls |-> <<"OsRng::fill_bytes">> \o c.out.calls]
            /\ entropy' = Append(entropy, "sign_message")
            /\ UNCHANGED <<pairs, origin>>
    ELSE /\ last' = [op |-> "sign_message", args |-> c.args,
                     ret |-> c.out.ret, calls |-> c.out.calls]
         /\ UNCHANGED <<pairs, origin, entropy>>

SignMessageCall(c) ==
    /\ last' = [op |-> "sign_message", args |-> c.args,
                ret |-> c.out.ret, calls |-> c.out.calls]
    /\ UNCHANGED <<pairs, origin, entropy>>

SignMessage(c) ==
    /\ SignMessageCall(c)
    /\ UNCHANGED firstSign

\* sign_message, with the first call of the run kept for comparison,
\* together with the number of reads of the random source before it.
SignMessageObserved(c) ==
    /\ SignMessageCall(c)
    /\ firstSign' = IF firstSign = None
                    THEN [op |-> "sign_message", args |-> last'.args,
                          ret |-> last'.ret, calls |-> last'.calls,
                          reads |-> Len(entropy')]
                    ELSE firstSign

VerifySignature(c) ==
    /\ last' = [op |-> "verify_signature", args |-> c.args,
                ret |-> c.out.ret, calls |-> c.out.calls]
    /\ UNCHANGED <<pairs, origin, entropy, firstSign>>

KeypairFromPrivateKey(c) ==
    /\ last' = [op |-> "keypair_from_private_key", args |-> c.args,
                ret |-> c.out.ret, calls |-> c.out.calls]
    /\ IF c.out.ret.ok
       THEN /\ Len(pairs) < MaxPairs
            /\ pairs' = ArcNew(pairs, c.out.ret.val)
            /\ origin' = Append(origin, Created("keypair_from_private_key", c.out.ret.val))
       ELSE UNCHANGED <<pairs, origin>>
    /\ UNCHANGED <<entropy, firstSign>>

Next ==
    \/ \E a \in NewInputs : New(a.public_key, a.private_key)
    \/ \E i \in 1..Len(pairs) : GetPublicKey(i)
    \/ \E i \in 1..Len(pairs) : GetPrivateKey(i)
    \/ \E i \in 1..Len(pairs) : GetPublicKeyHex(i)
    \/ \E i \in 1..Len(pairs) : GetPrivateKeyHex(i)
    \/ GenerateKeypair
    \/ \E c \in SignCalls : SignMessage(c)
    \/ \E c \in VerifyCalls : VerifySignature(c)
    \/ \E c \in KeypairCalls : KeypairFromPrivateKey(c)

Spec == Init /\ [][Next]_vars

\* The verify_signature calls made between signing calls: a signature that
\* sign_message made and one of a wrong length, with every message and
\* every public key (accepted, rejected, InvalidPublicKey and
\* InvalidSignature all occur).
VerifyCallsBetween ==
    {c \in VerifyCalls :
        c.args.signature \in {sign_message(<<>>, Ramp(3, KeyLen)).ret.val,
                              Ramp(9, 63)}}

\* Every operation, with the first signing call remembered.  No operation
\* reads a KeyPair that another call made, so the host holds at most
\* MaxPairsDet objects here.
NextDet ==
    \/ \E a \in NewInputs :
          /\ Len(pairs) < MaxPairsDet
          /\ New(a.public_key, a.private_key)
    \/ \E i \in 1..Len(pairs) : GetPublicKey(i)
    \/ \E i \in 1..Len(pairs) : GetPrivateKey(i)
    \/ \E i \in 1..Len(pairs) : GetPublicKeyHex(i)
    \/ \E i \in 1..Len(pairs) : GetPrivateKeyHex(i)
    \/ /\ Len(pairs) < MaxPairsDet
       /\ GenerateKeypair
    \/ \E c \in SignCalls : SignMessageObserved(c)
    \/ \E c \in VerifyCallsBetween : VerifySignature(c)
    \/ \E c \in KeypairCalls :
          /\ c.out.ret.ok => Len(pairs) < MaxPairsDet
          /\ KeypairFromPrivateKey(c)

SpecDet == Init /\ [][NextDet]_vars

(***************************************************************************)
(* Helpers of the properties.                                              *)
(***************************************************************************)
IsErr(ret, kind) == ~ret.ok /\ ret.kind = kind

IsDigit(c) == \E d \in 1..10 : DigitChars[d] = c
DigitValue(c) == (CHOOSE d \in 1..10 : DigitChars[d] = c) - 1

\* The number a sequence of decimal digits denotes.
RECURSIVE ReadDecimal(_)
ReadDecimal(ds) == IF ds = <<>> THEN 0
                   ELSE 10 * ReadDecimal(SubSeq(ds, 1, Len(ds) - 1)) + DigitValue(ds[Len(ds)])

\* The reason has the decimal digits of n as consecutive fragments.
ReasonContains(reason, n) ==
    \E i \in 1..Len(reason) : \E j \in i..Len(reason) :
        /\ \A k \in i..j : IsDigit(reason[k])
        /\ ReadDecimal(SubSeq(reason, i, j)) = n

IsLowerHex(str) == \A i \in 1..Len(str) : \E v \in 1..16 : HexChars[v] = str[i]
HexValue(c) == (CHOOSE v \in 1..16 : HexChars[v] = c) - 1

\* Decoding of a hex string of even length, high nibble first.
hex_decode(str) ==
    [i \in 1..(Len(str) \div 2) |-> 16 * HexValue(str[2 * i - 1]) + HexValue(str[2 * i])]

IsBytes(v) == DOMAIN v = 1..Len(v) /\ \A i \in 1..Len(v) : v[i] \in Byte

\* C1: verify_signature checks the public key length, then the signature
\* length, then decodes the key: a key of another length than 32 gives
\* InvalidPublicKey whatever the signature; a 32 byte key with a signature of
\* another length than 64 gives InvalidSignature even when the key does not
\* decode; InvalidPublicKey for a 32 byte key comes only with a 64 byte
\* signature and a key that does not decode; the two length failures evaluate
\* no primitive.
C1_ValidationOrder ==
    last.op = "verify_signature" =>
        LET public_key == last.args.public_key
            signature  == last.args.signature
        IN  /\ Len(public_key) # 32 =>
                   IsErr(last.ret, "InvalidPublicKey") /\ last.calls = <<>>
            /\ (Len(public_key) = 32 /\ Len(signature) # 64) =>
                   IsErr(last.ret, "InvalidSignature") /\ last.calls = <<>>
            /\ (Len(public_key) = 32 /\ IsErr(last.ret, "InvalidPublicKey")) =>
                   /\ Len(signature) = 64
                   /\ ~Decompressible(public_key)
                   /\ last.calls = <<"VerifyingKey::from_bytes">>

\* An undecodable 32 byte key with a signature of the wrong length.
C1_Witness ==
    /\ last.op = "verify_signature"
    /\ last.args.public_key = BadPoint
    /\ Len(last.args.signature) # 64
    /\ IsErr(last.ret, "InvalidSignature")

\* The verdict of the primitive on every well-formed input of the model: a
\* message, a 64 byte signature and a 32 byte key that decodes.
Verdicts ==
    {[message |-> m, signature |-> s, public_key |-> p,
      accepted |-> verify(VerifyingKey_from_bytes(p), m, s)] :
        m \in Messages,
        s \in {x \in SignatureInputs : Len(x) = 64},
        p \in {x \in PublicKeyInputs : Len(x) = 32 /\ Decompressible(x)}}

\* C2: on a 64 byte signature and a 32 byte key that decodes, verify_signature
\* returns a boolean, TRUE exactly when the verification accepts; it returns
\* an error only on a wrong length or a key that does not decode.
C2_RejectionIsNotAnError ==
    last.op = "verify_signature" =>
        LET wellFormed == \E v \in Verdicts :
                              /\ v.message = last.args.message
                              /\ v.signature = last.args.signature
                              /\ v.public_key = last.args.public_key
        IN  /\ \A v \in Verdicts :
                   (/\ v.message = last.args.message
                    /\ v.signature = last.args.signature
                    /\ v.public_key = last.args.public_key)
                       => last.ret = Ok(v.accepted)
            /\ ~last.ret.ok => ~wellFormed
            /\ ~wellFormed => \/ Len(last.args.public_key) # 32
                              \/ Len(last.args.signature) # 64
                              \/ last.args.public_key = BadPoint

\* A tampered signature over well-formed inputs: the answer is FALSE.
C2_Witness ==
    /\ last.op = "verify_signature"
    /\ last.args.signature \in TamperedSignatures
    /\ last.args.public_key \in DerivedPublicKeys
    /\ last.ret = Ok(FALSE)

\* C3: a signature made by sign_message(m, k) verifies under the public key
\* of keypair_from_private_key(k), for every message (the empty one too) and
\* every 32 byte k; sign_message succeeds on such k.  SignCalls and
\* KeypairCalls hold what the two operations return on each input.
C3_RoundTrip ==
    /\ (last.op = "sign_message" /\ Len(last.args.private_key) = 32) => last.ret.ok
    /\ last.op = "verify_signature" =>
           \A s \in SignCalls, k \in KeypairCalls :
               (/\ s.out.ret.ok
                /\ k.out.ret.ok
                /\ k.args.private_key = s.args.private_key
                /\ last.args.message = s.args.message
                /\ last.args.signature = s.out.ret.val
                /\ last.args.public_key = k.out.ret.val.public_key)
                   => last.ret = Ok(TRUE)

\* The round trip on the empty message.
C3_Witness ==
    /\ last.op = "verify_signature"
    /\ last.args.message = <<>>
    /\ \E s \in SignCalls, k \in KeypairCalls :
           /\ s.out.ret.ok
           /\ k.out.ret.ok
           /\ k.args.private_key = s.args.private_key
           /\ s.args.message = <<>>
           /\ last.args.signature = s.out.ret.val
           /\ last.args.public_key = k.out.ret.val.public_key
    /\ last.ret = Ok(TRUE)

\* C4: keypair_from_private_key and sign_message fail, with InvalidPrivateKey
\* and a reason that contains the length of the key, exactly when the key is
\* not 32 bytes long; on 32 bytes both succeed and sign_message returns 64
\* bytes.
C4_PrivateKeyLength ==
    last.op \in {"sign_message", "keypair_from_private_key"} =>
        LET n == Len(last.args.private_key)
        IN  /\ n # 32 => /\ IsErr(last.ret, "InvalidPrivateKey")
                         /\ ReasonContains(last.ret.reason, n)
            /\ n = 32 => /\ last.ret.ok
                         /\ last.op = "sign_message" =>
                                IsBytes(last.ret.val) /\ Len(last.ret.val) = 64

\* A key of 64 bytes refused by keypair_from_private_key.
C4_Witness ==
    /\ last.op = "keypair_from_private_key"
    /\ Len(last.args.private_key) = 64
    /\ IsErr(last.ret, "InvalidPrivateKey")

\* The Ed25519 derivation of the public key, for every seed of the model.
Derivations ==
    {[private_key |-> k,
      public_key |-> verifying_key_to_bytes(SigningKey_from_bytes(k))] :
        k \in Seeds \cup RandomSeeds}

\* C5: every KeyPair made by generate_keypair or keypair_from_private_key has
\* two keys of 32 bytes, the public one derived from the private one; the
\* pair of keypair_from_private_key(k) stores k, and two such pairs with the
\* same private key have the same public key.
C5_DerivedPairsConsistent ==
    /\ \A i \in 1..Len(pairs) :
           origin[i].by # "new" =>
               /\ Len(pairs[i].private_key) = 32
               /\ Len(pairs[i].public_key) = 32
               /\ \E d \in Derivations : /\ d.private_key = pairs[i].private_key
                                         /\ d.public_key = pairs[i].public_key
    /\ \A i, j \in 1..Len(pairs) :
           (/\ origin[i].by # "new"
            /\ origin[j].by # "new"
            /\ pairs[i].private_key = pairs[j].private_key)
               => pairs[i].public_key = pairs[j].public_key
    /\ (last.op = "keypair_from_private_key" /\ last.ret.ok) =>
           /\ last.ret.val.private_key = last.args.private_key
           /\ last.ret.val = pairs[Len(pairs)]
    /\ last.op = "generate_keypair" => last.ret = pairs[Len(pairs)]

\* The same seed drawn by generate_keypair and given to
\* keypair_from_private_key: two objects, one public key.
C5_Witness ==
    /\ Len(pairs) = 2
    /\ origin[1].by = "generate_keypair"
    /\ origin[2].by = "keypair_from_private_key"
    /\ pairs[1].private_key = pairs[2].private_key
    /\ last.op = "keypair_from_private_key"

Accessors == {"get_public_key", "get_private_key",
              "get_public_key_hex", "get_private_key_hex"}

\* The key an accessor call reads.
KeyRead == IF last.op \in {"get_public_key", "get_public_key_hex"}
           THEN pairs[last.args.self].public_key
           ELSE pairs[last.args.self].private_key

\* C6, as claimed: on every KeyPair, the raw constructor's too, the byte
\* accessors return 32 bytes and the hex accessors 64 lowercase hex digits
\* that decode to the bytes.
C6_AccessorsAsClaimed ==
    /\ last.op \in {"get_public_key", "get_private_key"} =>
           last.ret = KeyRead /\ Len(last.ret) = 32
    /\ last.op \in {"get_public_key_hex", "get_private_key_hex"} =>
           /\ Len(last.ret) = 64
           /\ IsLowerHex(last.ret)
           /\ hex_decode(last.ret) = KeyRead

\* C6, amended: the byte accessors return the stored key and the hex
\* accessors two lowercase hex digits per byte that decode to it, on every
\* KeyPair; the lengths are 32 bytes and 64 digits on the KeyPairs made by
\* generate_keypair and keypair_from_private_key.
C6_Accessors ==
    /\ last.op \in {"get_public_key", "get_private_key"} =>
           /\ last.ret = KeyRead
           /\ origin[last.args.self].by # "new" => Len(last.ret) = 32
    /\ last.op \in {"get_public_key_hex", "get_private_key_hex"} =>
           /\ Len(last.ret) = 2 * Len(KeyRead)
           /\ IsLowerHex(last.ret)
           /\ hex_decode(last.ret) = KeyRead
           /\ origin[last.args.self].by # "new" => Len(last.ret) = 64

\* The hex form of the public key of a derived KeyPair.
C6_Witness ==
    /\ last.op = "get_public_key_hex"
    /\ origin[last.args.self].by = "keypair_from_private_key"
    /\ Len(last.ret) = 64
    /\ hex_decode(last.ret) = pairs[last.args.self].public_key

\* C7: sign_message is a function of its message and key alone and reads
\* no randomness.  Whatever operations have run, the random source has been
\* read by generate_keypair only; a sign_message call does not call OsRng,
\* returns for a 32 byte key the signature RFC 8032 fixes for that key and
\* message and for any other key the error naming its length; and it
\* returns what the first sign_message call of the run returned whenever
\* the two calls have the same message and key.
C7_SignDeterministic ==
    /\ \A i \in 1..Len(entropy) : entropy[i] = "generate_keypair"
    /\ last.op = "sign_message" =>
        /\ "OsRng::fill_bytes" \notin {last.calls[i] : i \in 1..Len(last.calls)}
        /\ IF Len(last.args.private_key) = KeyLen
           THEN \E e \in SignatureTable :
                    /\ e.seed = last.args.private_key
                    /\ e.message = last.args.message
                    /\ last.ret = Ok(e.signature)
           ELSE /\ IsErr(last.ret, "InvalidPrivateKey")
                /\ ReasonContains(last.ret.reason, Len(last.args.private_key))
        /\ (firstSign # None /\ firstSign.args = last.args) =>
               last.ret = firstSign.ret

\* A signing call that repeats the first signing call of the run after
\* generate_keypair has read the random source in between, and returns the
\* same signature.
C7_Witness ==
    /\ last.op = "sign_message"
    /\ last.ret.ok
    /\ firstSign # None
    /\ firstSign.args = last.args
    /\ firstSign.reads < Len(entropy)
    /\ entropy[Len(entropy)] = "generate_keypair"
    /\ last.ret = firstSign.ret

\* C8: no call returns SigningFailed or VerificationFailed:
\* keypair_from_private_key and sign_message fail only with
\* InvalidPrivateKey, verify_signature only with InvalidPublicKey or
\* InvalidSignature; generate_keypair and the constructor return a KeyPair
\* and the accessors a sequence, never an error.
C8_ReservedErrorsUnused ==
    /\ last.op \in {"sign_message", "keypair_from_private_key"} =>
           (last.ret.ok \/ last.ret.kind = "InvalidPrivateKey")
    /\ last.op = "verify_signature" =>
           (last.ret.ok \/ last.ret.kind \in {"InvalidPublicKey", "InvalidSignature"})
    /\ (last.op \in {"sign_message", "keypair_from_private_key", "verify_signature"}
            /\ ~last.ret.ok) =>
           last.ret.kind \in ErrorKinds \ {"SigningFailed", "VerificationFailed"}
    /\ last.op \in {"generate_keypair", "new"} =>
           DOMAIN last.ret = {"public_key", "private_key"}
    /\ last.op \in Accessors => DOMAIN last.ret = 1..Len(last.ret)

\* The failure of the primitive that decodes the key, returned as
\* InvalidPublicKey.
C8_Witness ==
    /\ last.op = "verify_signature"
    /\ last.calls = <<"VerifyingKey::from_bytes">>
    /\ IsErr(last.ret, "InvalidPublicKey")

\* C9: after any calls, every KeyPair created so far is still there and its
\* accessors return the bytes it was created with.
C9_PairsImmutable ==
    /\ Len(pairs) = Len(origin)
    /\ \A i \in 1..Len(origin) :
           /\ get_public_key(pairs[i]) = get_public_key(origin[i].made)
           /\ get_private_key(pairs[i]) = get_private_key(origin[i].made)

\* A second KeyPair created next to a first one, which was then read.
C9_Witness ==
    /\ Len(pairs) = 2
    /\ last.op = "get_public_key"
    /\ last.args.self = 1
    /\ last.ret = origin[1].made.public_key

\* C10: the raw constructor stores its two arguments as they are, whatever
\* their lengths and whether or not they belong together, and returns the
\* KeyPair.
C10_RawConstructor ==
    last.op = "new" =>
        /\ last.ret = pairs[Len(pairs)]
        /\ origin[Len(pairs)].by = "new"
        /\ get_public_key(last.ret) = last.args.public_key
        /\ get_private_key(last.ret) = last.args.private_key

\* A public key of 31 bytes accepted.
C10_Witness ==
    /\ last.op = "new"
    /\ Len(last.args.public_key) = 31
    /\ Len(get_public_key(pairs[Len(pairs)])) = 31

====
